---- MODULE Spec2Model ----
(***************************************************************************)
(* A model of the single-pushout graph rewriter of server/logic.py:        *)
(* calculate(req) and its validator _check_morphism, over the data model   *)
(* of server/models.py.  One behaviour is one invocation of calculate on   *)
(* one request.                                                            *)
(***************************************************************************)
EXTENDS Integers, Sequences, FiniteSets, TLC

(***************************************************************************)
(* Node identifiers (models.NodeId = Union[int, str]) and Python's None.   *)
(*   <<"int", n>>  the integer n                                           *)
(*   <<"str", n>>  the string that is the decimal numeral of n             *)
(*   <<"tok", n>>  a string that int() cannot parse (token number n)       *)
(***************************************************************************)
None == <<"none", 0>>
I(n) == <<"int", n>>
S(n) == <<"str", n>>
T(n) == <<"tok", n>>

IsPyInt(id) == id[1] = "int"
IsPyStr(id) == id[1] \in {"str", "tok"}

\* Python truthiness of an id or None: None, 0 and "" are falsy.
Falsy(v) == v = None \/ v = I(0)

\* logic._norm_ids._to_int_helper: ints pass, numeric strings become ints.
ToIntHelper(n) == IF n[1] = "str" THEN I(n[2]) ELSE n

\* int(n) of line 106 succeeds on ints and numeric strings only.
IntParsable(n) == n[1] \in {"int", "str"}
IntOf(n) == n[2]

(***************************************************************************)
(* Python dicts, as sequences of <<key, value>> with unique keys, in       *)
(* insertion order.                                                        *)
(***************************************************************************)
DictKeys(d) == {d[i][1] : i \in DOMAIN d}
DictGetOr(d, k, default) ==
    IF k \in DictKeys(d) THEN d[CHOOSE i \in DOMAIN d : d[i][1] = k][2] ELSE default
DictGet(d, k) == DictGetOr(d, k, None)
DictPut(d, k, v) ==
    IF k \in DictKeys(d)
    THEN [i \in DOMAIN d |-> IF d[i][1] = k THEN <<k, v>> ELSE d[i]]
    ELSE Append(d, <<k, v>>)

RECURSIVE NormIdsFrom(_, _, _)
NormIdsFrom(mapping, i, acc) ==
    IF i > Len(mapping) THEN acc
    ELSE NormIdsFrom(mapping, i + 1,
                     DictPut(acc, ToIntHelper(mapping[i][1]), ToIntHelper(mapping[i][2])))
\* logic._norm_ids: a dict comprehension over mapping.items().
NormIds(mapping) == NormIdsFrom(mapping, 1, <<>>)

RECURSIVE ReverseMapFrom(_, _, _)
ReverseMapFrom(d, i, acc) ==
    IF i > Len(d) THEN acc
    ELSE ReverseMapFrom(d, i + 1,
                        DictPut(acc, d[i][2], Append(DictGetOr(acc, d[i][2], <<>>), d[i][1])))
\* calculate, lines 100-102: lhs_to_rhs.setdefault(lhs_id, []).append(rhs_id).
ReverseMap(d) == ReverseMapFrom(d, 1, <<>>)

(***************************************************************************)
(* Coordinates: <<>> is None, <<v>> is the number v.  A node's attributes  *)
(* are a function on a subset of {"x", "y"} (a Python dict).               *)
(***************************************************************************)
NoneVal == <<>>
Num(v) == <<v>>
NoAttrs == [k \in {} |-> NoneVal]
XY(x, y) == [k \in {"x", "y"} |-> IF k = "x" THEN x ELSE y]
AttrGetOr(a, k, default) == IF k \in DOMAIN a THEN a[k] ELSE default
AttrUpdate(old, new) ==
    [k \in DOMAIN old \cup DOMAIN new |-> IF k \in DOMAIN new THEN new[k] ELSE old[k]]

(***************************************************************************)
(* networkx.Graph: nodes in insertion order, attributes per node, and per  *)
(* node its neighbours in insertion order.                                 *)
(***************************************************************************)
InSeq(v, s) == \E i \in DOMAIN s : s[i] = v
Without(s, v) == SelectSeq(s, LAMBDA e : e # v)

EmptyGraph == [nodes |-> <<>>, attr |-> [n \in {} |-> NoAttrs], adj |-> [n \in {} |-> <<>>]]
HasNode(G, n) == n \in DOMAIN G.attr
HasEdge(G, u, v) == u \in DOMAIN G.adj /\ InSeq(v, G.adj[u])
NodeAttrs(G, n) == IF HasNode(G, n) THEN G.attr[n] ELSE NoAttrs

AddNode(G, n, a) ==
    IF HasNode(G, n)
    THEN [G EXCEPT !.attr[n] = AttrUpdate(@, a)]
    ELSE [nodes |-> Append(G.nodes, n),
          attr  |-> [m \in DOMAIN G.attr \cup {n} |-> IF m = n THEN a ELSE G.attr[m]],
          adj   |-> [m \in DOMAIN G.adj \cup {n} |-> IF m = n THEN <<>> ELSE G.adj[m]]]

AddEdge(G, u, v) ==
    LET G1 == AddNode(AddNode(G, u, NoAttrs), v, NoAttrs)
        G2 == IF InSeq(v, G1.adj[u]) THEN G1 ELSE [G1 EXCEPT !.adj[u] = Append(@, v)]
    IN  IF InSeq(u, G2.adj[v]) THEN G2 ELSE [G2 EXCEPT !.adj[v] = Append(@, u)]

\* A variant of Graph.remove_node that leaves the node in its neighbours'
\* adjacency.
RemoveNodeKeepingEdges(G, n) ==
    [nodes |-> Without(G.nodes, n),
     attr  |-> [m \in DOMAIN G.attr \ {n} |-> G.attr[m]],
     adj   |-> [m \in DOMAIN G.adj \ {n} |-> G.adj[m]]]

RemoveNode(G, n) ==
    [nodes |-> Without(G.nodes, n),
     attr  |-> [m \in DOMAIN G.attr \ {n} |-> G.attr[m]],
     adj   |-> [m \in DOMAIN G.adj \ {n} |-> Without(G.adj[m], n)]]

RemoveEdge(G, u, v) ==
    [G EXCEPT !.adj = [m \in DOMAIN G.adj |->
                          IF m = u /\ m = v THEN Without(G.adj[m], u)
                          ELSE IF m = u THEN Without(G.adj[m], v)
                          ELSE IF m = v THEN Without(G.adj[m], u)
                          ELSE G.adj[m]]]

\* The unordered edges of G, as sets of one (self-loop) or two node ids.
EdgeSet(G) ==
    {{p[1], p[2]} : p \in {q \in (DOMAIN G.adj) \X (DOMAIN G.adj) : HasEdge(G, q[1], q[2])}}

RECURSIVE EdgesFrom(_, _)
EdgesFrom(G, i) ==
    IF i > Len(G.nodes) THEN <<>>
    ELSE LET n    == G.nodes[i]
             seen == {G.nodes[j] : j \in 1..(i - 1)}
             nb   == SelectSeq(G.adj[n], LAMBDA m : m \notin seen)
         IN  [k \in DOMAIN nb |-> <<n, nb[k]>>] \o EdgesFrom(G, i + 1)
\* Graph.edges(): each undirected edge once, by node order then adjacency order.
Edges(G) == EdgesFrom(G, 1)

RECURSIVE AddNodesFrom(_, _, _)
AddNodesFrom(G, ns, i) ==
    IF i > Len(ns) THEN G
    ELSE AddNodesFrom(AddNode(G, ns[i].id, XY(ns[i].x, ns[i].y)), ns, i + 1)
RECURSIVE AddEdgesFrom(_, _, _)
AddEdgesFrom(G, ls, i) ==
    IF i > Len(ls) THEN G
    ELSE AddEdgesFrom(AddEdge(G, ls[i][1], ls[i][2]), ls, i + 1)
\* models.NodeLinkGraph.to_networkx: node_link_graph of the dumped nodes and links.
ToNetworkx(g) == AddEdgesFrom(AddNodesFrom(EmptyGraph, g.nodes, 1), g.links, 1)

\* json_graph.node_link_data, then the Node and Link lists of lines 274-276.
NodeLinkData(G) ==
    [nodes |-> [i \in DOMAIN G.nodes |->
                   [id |-> G.nodes[i],
                    x  |-> AttrGetOr(G.attr[G.nodes[i]], "x", NoneVal),
                    y  |-> AttrGetOr(G.attr[G.nodes[i]], "y", NoneVal)]],
     links |-> Edges(G)]

(***************************************************************************)
(* logic._check_morphism(G_in, G_lhs, lhs_to_input).                       *)
(***************************************************************************)
\* sorted() of a set raises TypeError when it holds an int and a str.
SortedFails(ids) == \E a \in ids, b \in ids : IsPyInt(a) /\ IsPyStr(b)

SeqRange(s) == {s[i] : i \in DOMAIN s}

\* The body of the loop of line 35 for one LHS node.
CheckLhsNode(Gin, Glhs, m, lhs_id) ==
    LET input_id == DictGet(m, lhs_id)
        lhs_nbrs == SeqRange(Glhs.adj[lhs_id])
        inp_nbrs == SeqRange(Gin.adj[input_id])
        mapped   == {DictGet(m, l) : l \in lhs_nbrs} \ {None}
    IN  IF input_id = None THEN "unmapped"
        ELSE IF ~HasNode(Gin, input_id) THEN "NetworkXError"
        ELSE IF SortedFails(mapped) \/ SortedFails(inp_nbrs) THEN "TypeError"
        ELSE IF ~(mapped \subseteq inp_nbrs) THEN "nomorphism"
        ELSE IF \E l \in lhs_nbrs :
                   ~(HasEdge(Gin, DictGet(m, l), input_id) \/ HasEdge(Gin, input_id, DictGet(m, l)))
             THEN "nomorphism"
        ELSE IF \E l \in SeqRange(Glhs.nodes) :
                   HasEdge(Gin, input_id, DictGet(m, l)) /\ ~HasEdge(Glhs, lhs_id, l)
             THEN "nomorphism"
        ELSE "ok"

RECURSIVE CheckFrom(_, _, _, _)
CheckFrom(Gin, Glhs, m, i) ==
    IF i > Len(Glhs.nodes) THEN "ok"
    ELSE LET r == CheckLhsNode(Gin, Glhs, m, Glhs.nodes[i])
         IN  IF r # "ok" THEN r ELSE CheckFrom(Gin, Glhs, m, i + 1)
CheckMorphism(Gin, Glhs, m) == CheckFrom(Gin, Glhs, m, 1)

(***************************************************************************)
(* Helpers of logic.calculate.  The closures of lines 119-154 read and     *)
(* write G_in, next_new_id and rhs_new_to_input; here that state is the    *)
(* record s = [G, next, memo, queue, created, err], threaded through.      *)
(* created is the log of the nodes create_rhs_only_node added, each entry  *)
(* the call's arguments, the id it allocated, the coordinates it gave the  *)
(* node and those it read from the Input anchor; err is the exception      *)
(* raised, "" when none.                                                   *)
(***************************************************************************)
\* calculate, lines 105-109.
NextNewId(G) ==
    IF G.nodes # <<>> /\ \A n \in DOMAIN G.attr : IntParsable(n)
    THEN (CHOOSE v \in {IntOf(n) : n \in DOMAIN G.attr} :
              \A n \in DOMAIN G.attr : IntOf(n) <= v) + 1
    ELSE 1

\* ensure_edge, lines 119-124.
EnsureEdge(G, u, v) ==
    IF ~HasEdge(G, u, v) /\ ~HasEdge(G, v, u) THEN AddEdge(G, u, v) ELSE G

\* The coordinates create_rhs_only_node gives the new node, lines 134-147.
NewCoord(in_c, rhs_src_c, rhs_id_c) == in_c + (in_c + (rhs_id_c - rhs_src_c))

\* Whether create_rhs_only_node records the new node in the memo: it does not
\* on the early return of lines 139-141.
Memoizes(rhs_src, input_src) == ~(Falsy(rhs_src) /\ Falsy(input_src))

\* create_rhs_only_node(rhs_id, rhs_src, input_src), lines 126-154:
\* the state after the call and the id returned.
CreateRhsOnlyNode(s, Grhs, rhs_id, rhs_src, input_src) ==
    IF rhs_id \in DictKeys(s.memo) THEN [s |-> s, id |-> DictGet(s.memo, rhs_id)]
    ELSE
    LET in_pos  == NodeAttrs(s.G, input_src)
        in_x    == AttrGetOr(in_pos, "x", Num(0))
        in_y    == AttrGetOr(in_pos, "y", Num(0))
        new_id  == I(s.next)
        rhs_pos == NodeAttrs(Grhs, rhs_src)
        nbr_pos == NodeAttrs(Grhs, rhs_id)
        sx      == AttrGetOr(rhs_pos, "x", Num(0))
        sy      == AttrGetOr(rhs_pos, "y", Num(0))
        tx      == AttrGetOr(nbr_pos, "x", Num(0))
        ty      == AttrGetOr(nbr_pos, "y", Num(0))
        entry(x, y) == [rhs_id |-> rhs_id, rhs_src |-> rhs_src,
                        input_src |-> input_src, new_id |-> new_id,
                        x |-> x, y |-> y, in_x |-> in_x, in_y |-> in_y]
    IN  IF in_x = NoneVal \/ in_y = NoneVal
        THEN [s |-> [s EXCEPT !.err = "TypeError"], id |-> None]
        ELSE IF ~Memoizes(rhs_src, input_src)
        THEN [s  |-> [s EXCEPT !.G = AddNode(@, new_id, XY(in_x, in_y)),
                               !.next = @ + 1,
                               !.created = Append(@, entry(in_x, in_y))],
              id |-> new_id]
        ELSE IF NoneVal \in {sx, sy, tx, ty}
        THEN [s |-> [s EXCEPT !.err = "TypeError", !.next = @ + 1], id |-> None]
        ELSE LET new_x == Num(NewCoord(in_x[1], sx[1], tx[1]))
                 new_y == Num(NewCoord(in_y[1], sy[1], ty[1]))
             IN  [s  |-> [s EXCEPT !.G = AddNode(@, new_id, XY(new_x, new_y)),
                                   !.next = @ + 1,
                                   !.memo = DictPut(@, rhs_id, new_id),
                                   !.created = Append(@, entry(new_x, new_y))],
                  id |-> new_id]

\* The body of the loop of line 204 for one RHS neighbour.
VisitNeighbor(s, Grhs, m, c, visited, rhs_cur, input_cur, rhs_nbr) ==
    LET lhs_nbr == DictGet(c, rhs_nbr)
    IN  IF lhs_nbr = None
        THEN LET r  == CreateRhsOnlyNode(s, Grhs, rhs_nbr, rhs_cur, input_cur)
                 s1 == r.s
             IN  IF s1.err # "" THEN s1
                 ELSE [s1 EXCEPT !.G = EnsureEdge(@, input_cur, r.id),
                                 !.queue = IF rhs_nbr \notin visited
                                           THEN Append(@, <<rhs_nbr, r.id>>) ELSE @]
        ELSE LET input_nbr == DictGet(m, lhs_nbr)
             IN  IF input_nbr = None THEN s
                 ELSE [s EXCEPT !.G = EnsureEdge(@, input_cur, input_nbr),
                                !.queue = IF rhs_nbr \notin visited
                                          THEN Append(@, <<rhs_nbr, input_nbr>>) ELSE @]

RECURSIVE ExpandFrom(_, _, _, _, _, _, _, _, _)
ExpandFrom(s, Grhs, m, c, visited, rhs_cur, input_cur, nbrs, i) ==
    IF i > Len(nbrs) \/ s.err # "" THEN s
    ELSE ExpandFrom(VisitNeighbor(s, Grhs, m, c, visited, rhs_cur, input_cur, nbrs[i]),
                    Grhs, m, c, visited, rhs_cur, input_cur, nbrs, i + 1)

\* Which RHS nodes the loop of lines 229-232 materializes.
IsOrphan(rhs_node, visited, l2r) == rhs_node \notin visited /\ rhs_node \notin DictKeys(l2r)

RECURSIVE OrphansFrom(_, _, _, _, _)
OrphansFrom(s, Grhs, visited, l2r, i) ==
    IF i > Len(Grhs.nodes) \/ s.err # "" THEN s
    ELSE OrphansFrom(IF IsOrphan(Grhs.nodes[i], visited, l2r)
                     THEN CreateRhsOnlyNode(s, Grhs, None, None, Grhs.nodes[i]).s
                     ELSE s,
                     Grhs, visited, l2r, i + 1)

\* A variant of the test of lines 243-254 that looks the LHS ids up in the RHS
\* graph instead of their RHS counterparts.
RhsHasEdgeByLhsId(Grhs, l2r, lu, lv) == HasEdge(Grhs, lu, lv)

\* Lines 243-254: some RHS pair corresponding to (lu, lv) has an RHS edge.
RhsHasEdge(Grhs, l2r, lu, lv) ==
    \E ru \in SeqRange(DictGetOr(l2r, lu, <<>>)), rv \in SeqRange(DictGetOr(l2r, lv, <<>>)) :
        HasEdge(Grhs, ru, rv)

\* A variant of the body of the loop of line 237 that also restores the Input
\* edge when the RHS keeps the edge.
RemoveOrRestoreEdge(G, Grhs, m, l2r, lu, lv) ==
    LET in_u == DictGet(m, lu)
        in_v == DictGet(m, lv)
    IN  IF in_u = None \/ in_v = None THEN G
        ELSE IF RhsHasEdge(Grhs, l2r, lu, lv) THEN EnsureEdge(G, in_u, in_v)
        ELSE IF HasEdge(G, in_u, in_v) THEN RemoveEdge(G, in_u, in_v)
        ELSE IF HasEdge(G, in_v, in_u) THEN RemoveEdge(G, in_v, in_u)
        ELSE G

\* The body of the loop of line 237 for one LHS edge.
RemoveVanishedEdge(G, Grhs, m, l2r, lu, lv) ==
    LET in_u == DictGet(m, lu)
        in_v == DictGet(m, lv)
    IN  IF in_u = None \/ in_v = None THEN G
        ELSE IF RhsHasEdge(Grhs, l2r, lu, lv) THEN G
        ELSE IF HasEdge(G, in_u, in_v) THEN RemoveEdge(G, in_u, in_v)
        ELSE IF HasEdge(G, in_v, in_u) THEN RemoveEdge(G, in_v, in_u)
        ELSE G

(***************************************************************************)
(* The requests explored.  Each graph lists integer nodes 0, 1, ... in     *)
(* ascending order and its links in lexicographic order; the Input graph   *)
(* may end with one string-named node.  A mapping arrives as a JSON        *)
(* object, so its keys are numeric strings; it lists its entries by        *)
(* ascending key.                                                          *)
(***************************************************************************)
MaxInput == 2
MaxLhs == 3
MaxRhs == 3
MaxTotal == 7

\* An integer id that is never a node of the Input graph.
DanglingId == I(MaxInput + 7)
\* The string ids an Input node may carry: a token, and a numeric string.
StringIds == {T(1), S(MaxInput + 3)}

InputNode(n) == [id |-> I(n), x |-> Num(3 * n + 1), y |-> Num(n + 2)]
StringNode(id) == [id |-> id, x |-> Num(7), y |-> Num(5)]
LhsNode(n) == [id |-> I(n), x |-> Num(n), y |-> Num(0)]
RhsNode(n) == [id |-> I(n), x |-> Num(2 * n), y |-> Num(n * n + 1)]

IndexPairs(n) == {p \in (1..n) \X (1..n) : p[1] < p[2]}
\* The links of a request graph: the chosen pairs of positions, in lexicographic order.
LinkSeq(ns, E) ==
    LET n    == Len(ns)
        grid == [t \in 1..(n * n) |-> <<((t - 1) \div n) + 1, ((t - 1) % n) + 1>>]
        sel  == SelectSeq(grid, LAMBDA p : p \in E)
    IN  [t \in DOMAIN sel |-> <<ns[sel[t][1]].id, ns[sel[t][2]].id>>]
RequestGraph(ns, E) == [nodes |-> ns, links |-> LinkSeq(ns, E)]

\* A mapping of the request: the entries of f (on 1..n) that are not None, keyed
\* by the numeric string of the node's id.
RequestMapping(n, f) ==
    LET sel == SelectSeq([i \in 1..n |-> i], LAMBDA i : f[i] # None)
    IN  [t \in DOMAIN sel |-> <<S(sel[t] - 1), f[sel[t]]>>]

\* The node lists of the Input graph with ni nodes: the integers 0..ni-1, or
\* the integers 1..ni-1 followed by one string-named node.
InputNodeLists(ni) ==
    {[i \in 1..ni |-> InputNode(i - 1)]} \cup
    {Append([i \in 1..(ni - 1) |-> InputNode(i)], StringNode(id)) :
        id \in IF ni > 0 THEN StringIds ELSE {}}

Min(a, b) == IF a < b THEN a ELSE b

Request(ins, Ei, nl, El, nr, Er, m, c) ==
    [graph_input |-> RequestGraph(ins, Ei),
     graph_lhs   |-> RequestGraph([i \in 1..nl |-> LhsNode(i - 1)], El),
     graph_rhs   |-> RequestGraph([i \in 1..nr |-> RhsNode(i - 1)], Er),
     mapping_lhs_to_input |-> RequestMapping(nl, m),
     mapping_rhs_to_lhs   |-> RequestMapping(nr, c)]

\* The values a match entry may take: no entry, an Input node, a dangling id.
MatchValues(ins) == {None, DanglingId} \cup {ins[i].id : i \in DOMAIN ins}
\* A match with an entry for every LHS node, each naming an Input node.  The
\* requests with any other match are explored with an empty RHS graph: they
\* end in _check_morphism.
TotalMatch(nl, m) == \A i \in 1..nl : m[i] \notin {None, DanglingId}
\* The values a correspondence entry may take: no entry, or an LHS node.
CorrValues(nl) == {None} \cup {I(l - 1) : l \in 1..nl}

(***************************************************************************)
(* The state of one invocation of calculate.                               *)
(***************************************************************************)
VARIABLES
    req,               \* the CalculateRequest
    pc,                \* where calculate is
    G_in, G_lhs, G_rhs,
    lhs_to_input, rhs_to_lhs, lhs_to_rhs,
    next_new_id, rhs_new_to_input,
    li,                \* position of the loop of line 159 in list(G_lhs.nodes)
    ri,                \* position of the loop of line 174 in rhs_list
    queue, visited_rhs,
    ei,                \* position of the loop of line 237 in G_lhs.edges()
    created,           \* log of the nodes create_rhs_only_node added
    detail,            \* the rejection or the exception raised, "" when none
    result,            \* the NodeLinkGraph returned
    anchors,           \* main.calculate: the anchors list of lines 275-288
    oi,                \* main.calculate: position of the loop of line 290 in list(G_rhs.nodes)
    placed,            \* main.calculate: log of the orphans the loop of line 290 placed
    expanded,          \* history: the RHS nodes whose neighbours the loop of line 204
                       \* has iterated since the queue of line 180 was created
    step               \* history: the number of steps calculate has taken

vars == <<req, pc, G_in, G_lhs, G_rhs, lhs_to_input, rhs_to_lhs, lhs_to_rhs,
          next_new_id, rhs_new_to_input, li, ri, queue, visited_rhs, ei,
          created, detail, result, anchors, oi, placed, expanded, step>>

NoResult == [nodes |-> <<>>, links |-> <<>>]

Init ==
    /\ \E ni \in 0..MaxInput :
       \E nl \in 0..Min(MaxLhs, MaxTotal - ni) :
       \E ins \in InputNodeLists(ni) :
       \E Ei \in SUBSET IndexPairs(ni), El \in SUBSET IndexPairs(nl) :
       \E m \in [1..nl -> MatchValues(ins)] :
       \E nr \in 0..(IF TotalMatch(nl, m) THEN Min(MaxRhs, MaxTotal - ni - nl) ELSE 0) :
       \E Er \in SUBSET IndexPairs(nr) :
       \E c \in [1..nr -> CorrValues(nl)] :
           req = Request(ins, Ei, nl, El, nr, Er, m, c)
    /\ pc = "start"
    /\ G_in = EmptyGraph /\ G_lhs = EmptyGraph /\ G_rhs = EmptyGraph
    /\ lhs_to_input = <<>> /\ rhs_to_lhs = <<>> /\ lhs_to_rhs = <<>>
    /\ next_new_id = 0 /\ rhs_new_to_input = <<>>
    /\ li = 0 /\ ri = 0 /\ queue = <<>> /\ visited_rhs = {} /\ ei = 0
    /\ created = <<>> /\ detail = "" /\ result = NoResult
    /\ anchors = <<>> /\ oi = 0 /\ placed = <<>> /\ expanded = <<>> /\ step = 0

\* calculate, lines 89-115: the graphs, the normalized mappings, the allocator.
Parse ==
    /\ pc = "start"
    /\ G_in' = ToNetworkx(req.graph_input)
    /\ G_lhs' = ToNetworkx(req.graph_lhs)
    /\ G_rhs' = ToNetworkx(req.graph_rhs)
    /\ lhs_to_input' = NormIds(req.mapping_lhs_to_input)
    /\ rhs_to_lhs' = NormIds(req.mapping_rhs_to_lhs)
    /\ lhs_to_rhs' = ReverseMap(rhs_to_lhs')
    /\ next_new_id' = NextNewId(G_in')
    /\ rhs_new_to_input' = <<>>
    /\ pc' = "check"
    /\ step' = step + 1
    /\ UNCHANGED <<req, expanded, anchors, oi, placed, li, ri, queue, visited_rhs, ei, created, detail, result>>

\* Where the loop of line 159 stands once its position is i.
LhsLoopPc(i) == IF i > Len(G_lhs.nodes) THEN "edges" ELSE "lhs"

\* A variant of the call of line 157 in which the validator consumes the
\* match of the first LHS node from the working graph.
ValidateConsuming ==
    /\ pc = "check"
    /\ LET r == CheckMorphism(G_in, G_lhs, lhs_to_input)
           first == IF G_lhs.nodes = <<>> THEN None ELSE DictGet(lhs_to_input, G_lhs.nodes[1])
       IN  /\ detail' = IF r = "ok" THEN "" ELSE r
           /\ pc' = IF r = "ok" THEN LhsLoopPc(1)
                    ELSE IF r \in {"unmapped", "nomorphism"} THEN "rejected"
                    ELSE "error"
           /\ G_in' = IF HasNode(G_in, first) THEN RemoveNode(G_in, first) ELSE G_in
    /\ li' = 1 /\ ei' = 1
    /\ step' = step + 1
    /\ UNCHANGED <<req, expanded, anchors, oi, placed, G_lhs, G_rhs, lhs_to_input, rhs_to_lhs, lhs_to_rhs,
                   next_new_id, rhs_new_to_input, ri, queue, visited_rhs, created, result>>

\* calculate, line 157: the call of _check_morphism, which raises or returns.
Validate ==
    /\ pc = "check"
    /\ LET r == CheckMorphism(G_in, G_lhs, lhs_to_input)
       IN  /\ detail' = IF r = "ok" THEN "" ELSE r
           /\ pc' = IF r = "ok" THEN LhsLoopPc(1)
                    ELSE IF r \in {"unmapped", "nomorphism"} THEN "rejected"
                    ELSE "error"
    /\ li' = 1 /\ ei' = 1
    /\ step' = step + 1
    /\ UNCHANGED <<req, expanded, anchors, oi, placed, G_in, G_lhs, G_rhs, lhs_to_input, rhs_to_lhs, lhs_to_rhs,
                   next_new_id, rhs_new_to_input, ri, queue, visited_rhs, created, result>>

\* A variant of the test of line 166 that also deletes a node with a single
\* RHS counterpart.
NoCounterpartOffByOne(rhs_list) == Len(rhs_list) <= 1

\* Line 166: the LHS node has no RHS counterpart.
NoCounterpart(rhs_list) == rhs_list = <<>>

\* One iteration of the loop of line 159, up to the loop of line 174:
\* an unmapped node is skipped, a node without RHS counterpart is deleted.
LhsNodeStep ==
    /\ pc = "lhs"
    /\ LET lhs_id   == G_lhs.nodes[li]
           input_id == DictGet(lhs_to_input, lhs_id)
           rhs_list == DictGetOr(lhs_to_rhs, lhs_id, <<>>)
       IN  IF input_id = None
           THEN /\ li' = li + 1 /\ pc' = LhsLoopPc(li + 1)
                /\ UNCHANGED <<G_in, ri>>
           ELSE IF NoCounterpart(rhs_list)
           THEN /\ G_in' = IF HasNode(G_in, input_id) THEN RemoveNode(G_in, input_id) ELSE G_in
                /\ li' = li + 1 /\ pc' = LhsLoopPc(li + 1)
                /\ UNCHANGED ri
           ELSE /\ ri' = 1 /\ pc' = "rhs"
                /\ UNCHANGED <<G_in, li>>
    /\ step' = step + 1
    /\ UNCHANGED <<req, expanded, anchors, oi, placed, G_lhs, G_rhs, lhs_to_input, rhs_to_lhs, lhs_to_rhs,
                   next_new_id, rhs_new_to_input, queue, visited_rhs, ei,
                   created, detail, result>>

\* Where the loop of line 174 stands once its position is i.
RhsLoopAdvance(i) ==
    IF i > Len(DictGetOr(lhs_to_rhs, G_lhs.nodes[li], <<>>))
    THEN /\ li' = li + 1 /\ pc' = LhsLoopPc(li + 1) /\ ri' = 0
    ELSE /\ li' = li /\ pc' = "rhs" /\ ri' = i

\* One iteration of the loop of line 174, up to the loop of line 184.
BeginExpansion ==
    /\ pc = "rhs"
    /\ LET rhs_start == DictGet(lhs_to_rhs, G_lhs.nodes[li])[ri]
           input_id  == DictGet(lhs_to_input, G_lhs.nodes[li])
       IN  IF ~HasNode(G_rhs, rhs_start)
           THEN /\ RhsLoopAdvance(ri + 1)
                /\ UNCHANGED <<queue, visited_rhs, expanded>>
           ELSE /\ queue' = <<<<rhs_start, input_id>>>>
                /\ visited_rhs' = {}
                /\ expanded' = <<>>
                /\ pc' = "bfs"
                /\ UNCHANGED <<li, ri>>
    /\ step' = step + 1
    /\ UNCHANGED <<req, anchors, oi, placed, G_in, G_lhs, G_rhs, lhs_to_input, rhs_to_lhs, lhs_to_rhs,
                   next_new_id, rhs_new_to_input, ei, created, detail, result>>

Locals == [G |-> G_in, next |-> next_new_id, memo |-> rhs_new_to_input,
           queue |-> queue, created |-> created, err |-> ""]

\* What a step leaves in the closures' state, or the exception it ends with.
Store(s) ==
    /\ G_in' = s.G
    /\ next_new_id' = s.next
    /\ rhs_new_to_input' = s.memo
    /\ queue' = s.queue
    /\ created' = s.created
    /\ detail' = s.err

\* One iteration of the loop of line 184: pop, and expand over the RHS neighbours.
Pop ==
    /\ pc = "bfs" /\ queue # <<>>
    /\ LET rhs_cur   == queue[1][1]
           input_cur == queue[1][2]
           s0 == [Locals EXCEPT !.queue = Tail(queue)]
       IN  IF rhs_cur \in visited_rhs
           THEN /\ Store(s0) /\ pc' = "bfs" /\ UNCHANGED <<visited_rhs, expanded>>
           ELSE LET s1 == ExpandFrom(s0, G_rhs, lhs_to_input, rhs_to_lhs,
                                     visited_rhs \cup {rhs_cur}, rhs_cur, input_cur,
                                     G_rhs.adj[rhs_cur], 1)
                IN  /\ Store(s1)
                    /\ visited_rhs' = visited_rhs \cup {rhs_cur}
                    /\ expanded' = Append(expanded, rhs_cur)
                    /\ pc' = IF s1.err = "" THEN "bfs" ELSE "error"
    /\ step' = step + 1
    /\ UNCHANGED <<req, anchors, oi, placed, G_lhs, G_rhs, lhs_to_input, rhs_to_lhs, lhs_to_rhs,
                   li, ri, ei, result>>

\* The loop of lines 229-232, run when the queue of this expansion is empty.
OrphanPass ==
    /\ pc = "bfs" /\ queue = <<>>
    /\ LET s1 == OrphansFrom(Locals, G_rhs, visited_rhs, lhs_to_rhs, 1)
       IN  /\ Store(s1)
           /\ IF s1.err = "" THEN RhsLoopAdvance(ri + 1)
              ELSE pc' = "error" /\ UNCHANGED <<li, ri>>
    /\ step' = step + 1
    /\ UNCHANGED <<req, expanded, anchors, oi, placed, G_lhs, G_rhs, lhs_to_input, rhs_to_lhs, lhs_to_rhs,
                   visited_rhs, ei, result>>

\* One iteration of the loop of line 237.
EdgeStep ==
    /\ pc = "edges" /\ ei <= Len(Edges(G_lhs))
    /\ G_in' = RemoveVanishedEdge(G_in, G_rhs, lhs_to_input, lhs_to_rhs,
                                  Edges(G_lhs)[ei][1], Edges(G_lhs)[ei][2])
    /\ ei' = ei + 1
    /\ step' = step + 1
    /\ UNCHANGED <<req, expanded, anchors, oi, placed, pc, G_lhs, G_rhs, lhs_to_input, rhs_to_lhs, lhs_to_rhs,
                   next_new_id, rhs_new_to_input, li, ri, queue, visited_rhs,
                   created, detail, result>>

\* calculate, lines 274-288: the graph returned.
Serialize ==
    /\ pc = "edges" /\ ei > Len(Edges(G_lhs))
    /\ result' = NodeLinkData(G_in)
    /\ pc' = "done"
    /\ step' = step + 1
    /\ UNCHANGED <<req, expanded, anchors, oi, placed, G_in, G_lhs, G_rhs, lhs_to_input, rhs_to_lhs, lhs_to_rhs,
                   next_new_id, rhs_new_to_input, li, ri, queue, visited_rhs, ei,
                   created, detail>>

Next == Parse \/ Validate \/ LhsNodeStep \/ BeginExpansion \/ Pop \/ OrphanPass
        \/ EdgeStep \/ Serialize

Spec == Init /\ [][Next]_vars

(***************************************************************************)
(* Irregular requests: a request over integer ids with a total match, in   *)
(* which one node leaves a coordinate out (models.Node defaults it to      *)
(* None), or one link names an id that is no node of its graph, or the     *)
(* Input graph has a self-loop.                                            *)
(***************************************************************************)
MaxIrregular == 2

\* The id a malformed link names.
MissingId == I(MaxIrregular + 5)

GraphFields == {"graph_input", "graph_lhs", "graph_rhs"}

Irregularities(r) ==
    {<<"omit", g, i, k>> : g \in {"graph_input", "graph_rhs"}, i \in 1..MaxIrregular,
                           k \in {"x", "y"}}
    \cup {<<"link", g, i, 0>> : g \in GraphFields, i \in 1..MaxIrregular}
    \cup {<<"loop", "graph_input", i, 0>> : i \in 1..MaxIrregular}

\* Whether request r has the node the irregularity q is about.
Applies(r, q) == q[3] <= Len(r[q[2]].nodes)

\* Request r with the irregularity q.
Irregular(r, q) ==
    LET g  == r[q[2]]
        id == g.nodes[q[3]].id
    IN  IF q[1] = "omit"
        THEN [r EXCEPT ![q[2]].nodes[q[3]][q[4]] = NoneVal]
        ELSE IF q[1] = "link"
        THEN [r EXCEPT ![q[2]].links = Append(@, <<id, MissingId>>)]
        ELSE [r EXCEPT ![q[2]].links = Append(@, <<id, id>>)]

InitIrregular ==
    /\ \E ni \in 1..MaxIrregular, nl \in 1..MaxIrregular, nr \in 0..MaxIrregular :
       \E Ei \in SUBSET IndexPairs(ni), El \in SUBSET IndexPairs(nl), Er \in SUBSET IndexPairs(nr) :
       \E m \in [1..nl -> {I(i - 1) : i \in 1..ni}], c \in [1..nr -> CorrValues(nl)] :
       LET r == Request([i \in 1..ni |-> InputNode(i - 1)], Ei, nl, El, nr, Er, m, c)
       IN  \E q \in Irregularities(r) : Applies(r, q) /\ req = Irregular(r, q)
    /\ pc = "start"
    /\ G_in = EmptyGraph /\ G_lhs = EmptyGraph /\ G_rhs = EmptyGraph
    /\ lhs_to_input = <<>> /\ rhs_to_lhs = <<>> /\ lhs_to_rhs = <<>>
    /\ next_new_id = 0 /\ rhs_new_to_input = <<>>
    /\ li = 0 /\ ri = 0 /\ queue = <<>> /\ visited_rhs = {} /\ ei = 0
    /\ created = <<>> /\ detail = "" /\ result = NoResult
    /\ anchors = <<>> /\ oi = 0 /\ placed = <<>> /\ expanded = <<>> /\ step = 0

SpecIrregular == InitIrregular /\ [][Next]_vars

(***************************************************************************)
(* Vocabulary of the properties.                                           *)
(***************************************************************************)
\* The Input graph as the request gives it.
InputGraph == ToNetworkx(req.graph_input)
LhsNodes == SeqRange(G_lhs.nodes)
RhsNodes == SeqRange(G_rhs.nodes)
Match(l) == DictGet(lhs_to_input, l)
Corr(r) == DictGet(rhs_to_lhs, r)
HasCounterpart(l) == \E r \in RhsNodes : Corr(r) = l
Returned == pc = "done"
Validated == pc \notin {"start", "check"}
ResultIds == {result.nodes[i].id : i \in DOMAIN result.nodes}
ResultEdges == {{result.links[i][1], result.links[i][2]} : i \in DOMAIN result.links}
\* The RHS node a logged creation was made for.
Target(e) == IF e.rhs_id # None THEN e.rhs_id ELSE e.input_src
CreatedFor(r) == {created[i].new_id : i \in {j \in DOMAIN created : Target(created[j]) = r}}
InputEdge(u, v) == HasEdge(InputGraph, u, v) \/ HasEdge(InputGraph, v, u)
FullyMapped == \A l \in LhsNodes : Match(l) # None /\ HasNode(InputGraph, Match(l))
InjectiveMatch ==
    \A l1 \in LhsNodes, l2 \in LhsNodes : (l1 # l2 /\ Match(l1) # None) => Match(l1) # Match(l2)

\* C1 (as claimed): in the returned graph, the match of every LHS node that has
\* no corresponding RHS node is absent, and so is every edge at it.
C1_DeletionCompleteness ==
    Returned =>
        \A l \in LhsNodes :
            (Match(l) # None /\ ~HasCounterpart(l)) =>
                /\ Match(l) \notin ResultIds
                /\ \A e \in ResultEdges : Match(l) \notin e

\* C2 (as claimed): in the returned graph, the match of every LHS node that has
\* a corresponding RHS node is present under the same id.
C2_PreservationOriginal ==
    Returned =>
        \A l \in LhsNodes :
            (Match(l) # None /\ HasCounterpart(l)) => Match(l) \in ResultIds

\* C2 (amended): in the returned graph, the match of every LHS node that has a
\* corresponding RHS node is present under the same id, unless some LHS node
\* with the same match has no corresponding RHS node.
C2_PreservationUnlessDeleted ==
    Returned =>
        \A l \in LhsNodes :
            (/\ Match(l) # None
             /\ HasCounterpart(l)
             /\ ~\E l2 \in LhsNodes : Match(l2) = Match(l) /\ ~HasCounterpart(l2))
            => Match(l) \in ResultIds

\* Witness of C2: a graph is returned after one mapped LHS node was deleted and
\* another, with an RHS counterpart, was expanded and kept.
C2_Witness ==
    /\ Returned
    /\ created # <<>>
    /\ \E l \in LhsNodes : Match(l) # None /\ ~HasCounterpart(l) /\ Match(l) \notin ResultIds
    /\ \E l \in LhsNodes : Match(l) # None /\ HasCounterpart(l) /\ Match(l) \in ResultIds

\* Some RHS pair corresponding to (lu, lv) is joined by an RHS edge.
RhsPairEdge(lu, lv) ==
    \E ru \in RhsNodes, rv \in RhsNodes : Corr(ru) = lu /\ Corr(rv) = lv /\ HasEdge(G_rhs, ru, rv)
\* The LHS edges whose two ends are matched.
MatchedLhsEdges ==
    {e \in SeqRange(Edges(G_lhs)) : Match(e[1]) # None /\ Match(e[2]) # None}

Representatives(r) ==
    IF Corr(r) # None THEN ({Match(Corr(r))} \ {None}) \cap ResultIds
    ELSE CreatedFor(r) \cap ResultIds

\* C4 (as claimed): every RHS node is represented by exactly one node of the
\* returned graph, and no two RHS-only nodes share a created node.
C4_Coverage ==
    Returned =>
        /\ \A r \in RhsNodes : Cardinality(Representatives(r)) = 1
        /\ \A r1 \in RhsNodes, r2 \in RhsNodes :
              (r1 # r2 /\ Corr(r1) = None /\ Corr(r2) = None)
              => CreatedFor(r1) \cap CreatedFor(r2) = {}

\* C5 (as claimed): over the whole rewrite create_rhs_only_node adds at most
\* one node for any RHS node.
C5_IdempotentCreation ==
    \A i \in DOMAIN created, j \in DOMAIN created :
        i # j => Target(created[i]) # Target(created[j])

\* C6 (as claimed): every id allocated is greater than every integer-parsable
\* id of the request's Input graph, is none of that graph's ids, and was not
\* allocated before in this invocation.
C6_IdentifierDisjointness ==
    \A i \in DOMAIN created :
        /\ created[i].new_id \notin DOMAIN InputGraph.attr
        /\ \A n \in DOMAIN InputGraph.attr :
              IntParsable(n) => IntOf(created[i].new_id) > IntOf(n)
        /\ \A j \in 1..(i - 1) : created[j].new_id # created[i].new_id

\* Some LHS edge with both ends matched has no Input edge between the matches.
MissingInputEdge ==
    \E e \in MatchedLhsEdges : ~InputEdge(Match(e[1]), Match(e[2]))
RejectedWith(d) == pc = "rejected" /\ detail = d /\ result = NoResult

\* C7 (as claimed): a request with an LHS edge whose matched ends have no Input
\* edge between them is rejected with NoMorphism, and no graph is returned.
C7_MissingEdgeRejected ==
    (Validated /\ MissingInputEdge) => RejectedWith("nomorphism")

\* C8: _check_morphism changes no graph, mapping, allocator or memo, and a
\* rejection is raised only by it, with the Input graph still as parsed.
C8_ValidationPrecedesMutation ==
    /\ pc \in {"check", "rejected"} =>
          /\ G_in = InputGraph
          /\ G_lhs = ToNetworkx(req.graph_lhs) /\ G_rhs = ToNetworkx(req.graph_rhs)
          /\ lhs_to_input = NormIds(req.mapping_lhs_to_input)
          /\ rhs_to_lhs = NormIds(req.mapping_rhs_to_lhs)
          /\ next_new_id = NextNewId(InputGraph)
          /\ rhs_new_to_input = <<>> /\ created = <<>> /\ result = NoResult
    /\ detail \in {"unmapped", "nomorphism"} <=> pc = "rejected"

\* Witness of C8: a request is rejected whose rewrite would have deleted a node
\* of the Input graph.
C8_Witness ==
    /\ pc = "rejected" /\ detail = "nomorphism"
    /\ \E l \in LhsNodes :
          Match(l) # None /\ HasNode(InputGraph, Match(l)) /\ ~HasCounterpart(l)

\* C9 (as claimed): a request with an LHS node that has no match entry is
\* rejected with UnmappedPatternNode.
C9_UnmappedRejected ==
    (Validated /\ \E l \in LhsNodes : Match(l) = None) => RejectedWith("unmapped")

\* Two different LHS nodes without LHS edge whose matches are joined in Input.
ExtraInputEdge ==
    \E l \in LhsNodes, l2 \in LhsNodes :
        l # l2 /\ InputEdge(Match(l), Match(l2)) /\ ~HasEdge(G_lhs, l, l2)

\* C10 (as claimed): a fully mapped request in which two different LHS nodes
\* without LHS edge have matches joined by an Input edge is rejected with
\* NoMorphism.
C10_ExtraEdgeRejected ==
    (Validated /\ FullyMapped /\ ExtraInputEdge) => RejectedWith("nomorphism")

\* The coordinate k of node n of G as create_rhs_only_node reads it (lines
\* 133-135, 142-145): 0 when the node or the attribute is missing.
Coord(G, n, k) == AttrGetOr(NodeAttrs(G, n), k, Num(0))
\* The logged creations made from an RHS anchor and an Input anchor (line 209).
AnchoredCreations ==
    {i \in DOMAIN created :
        /\ created[i].rhs_id # None /\ HasNode(G_rhs, created[i].rhs_src)
        /\ \/ HasNode(InputGraph, created[i].input_src)
           \/ \E j \in 1..(i - 1) : created[j].new_id = created[i].input_src}

\* C11 (as claimed): every node created from an RHS anchor ra and an Input
\* anchor ia for RHS node r lies at ia + (r - ra), in x and in y.
C11_RelativeVectorPlacement ==
    \A i \in AnchoredCreations :
        LET e == created[i]
        IN  /\ e.x = Num(e.in_x[1] + (Coord(G_rhs, e.rhs_id, "x")[1] - Coord(G_rhs, e.rhs_src, "x")[1]))
            /\ e.y = Num(e.in_y[1] + (Coord(G_rhs, e.rhs_id, "y")[1] - Coord(G_rhs, e.rhs_src, "y")[1]))

\* The nodes of the request's Input and RHS graphs that leave a coordinate out.
OmittedCoordinate ==
    \E g \in {"graph_input", "graph_rhs"} : \E i \in DOMAIN req[g].nodes :
        NoneVal \in {req[g].nodes[i].x, req[g].nodes[i].y}

\* C12 (as claimed): when a node of the Input or RHS graph leaves x or y out,
\* calculate raises nothing and every node it creates has numbers, computed
\* with 0 for what was left out, as coordinates.
C12_MissingCoordinatesDefault ==
    OmittedCoordinate =>
        /\ pc # "error"
        /\ \A i \in DOMAIN created : NoneVal \notin {created[i].x, created[i].y}

\* The graphs of the request with a link that names an id not in their node list.
MalformedGraphs ==
    {g \in GraphFields :
        \E i \in DOMAIN req[g].links : \E k \in 1..2 :
            req[g].links[i][k] \notin {req[g].nodes[j].id : j \in DOMAIN req[g].nodes}}
\* The working graph built from a graph of the request.
Working(g) == IF g = "graph_input" THEN G_in ELSE IF g = "graph_lhs" THEN G_lhs ELSE G_rhs
\* The ids the links of graph g of the request name that are no node of it.
MissingIds(g) ==
    {req[g].links[i][k] : i \in DOMAIN req[g].links, k \in 1..2}
        \ {req[g].nodes[j].id : j \in DOMAIN req[g].nodes}

\* C17 (as claimed): once a request with a link that names an id missing from
\* its graph's node list has been looked at, it is rejected, no rewrite step
\* has run, and no working graph has a node for the missing id.
C17_MalformedGraphRejected ==
    (Validated /\ MalformedGraphs # {}) =>
        /\ pc = "rejected" /\ result = NoResult
        /\ \A g \in MalformedGraphs : \A n \in MissingIds(g) : ~HasNode(Working(g), n)

\* Some LHS node without LHS self-loop is matched to an Input node with one.
InputSelfLoop ==
    \E l \in LhsNodes : HasEdge(InputGraph, Match(l), Match(l)) /\ ~HasEdge(G_lhs, l, l)

\* C19 (as claimed): a fully mapped request whose LHS edges all have Input
\* edges and whose Input edges between the matches of two different LHS nodes
\* all have LHS edges passes _check_morphism even when the match of an LHS
\* node has a self-loop in Input that the LHS node has not.
C19_SelfLoopAccepted ==
    (Validated /\ FullyMapped /\ ~MissingInputEdge /\ ~ExtraInputEdge /\ InputSelfLoop)
        => detail = ""

(***************************************************************************)
(* server/main.py: the calculate of the stand-alone application.  It has   *)
(* no validator, keeps one visited_rhs set for the whole rewrite, and      *)
(* places the RHS nodes no expansion visited in a pass of its own.  Its    *)
(* closures' state is threaded as s = [G, next, memo, visited, queue,      *)
(* created, err].                                                          *)
(***************************************************************************)
\* get_pos, lines 142-145; float(None) raises TypeError.
GetPos(G, n) == [x |-> Coord(G, n, "x"), y |-> Coord(G, n, "y")]
PosFails(p) == NoneVal \in {p.x, p.y}

\* main.create_rhs_only_node(rhs_id, rhs_src, input_src), lines 147-189.
MainCreateRhsOnlyNode(s, Grhs, rhs_id, rhs_src, input_src) ==
    IF rhs_id \in DictKeys(s.memo) THEN [s |-> s, id |-> DictGet(s.memo, rhs_id)]
    ELSE
    LET src    == GetPos(s.G, input_src)
        rsrc   == GetPos(Grhs, rhs_src)
        rtgt   == GetPos(Grhs, rhs_id)
        new_id == I(s.next)
    IN  IF PosFails(src) \/ PosFails(rsrc) \/ PosFails(rtgt)
        THEN [s |-> [s EXCEPT !.err = "TypeError"], id |-> None]
        ELSE LET new_x == Num(src.x[1] + (rtgt.x[1] - rsrc.x[1]))
                 new_y == Num(src.y[1] + (rtgt.y[1] - rsrc.y[1]))
             IN  [s  |-> [s EXCEPT !.G = AddNode(@, new_id, XY(new_x, new_y)),
                                   !.next = @ + 1,
                                   !.memo = DictPut(@, rhs_id, new_id),
                                   !.created = Append(@,
                                       [rhs_id |-> rhs_id, rhs_src |-> rhs_src,
                                        input_src |-> input_src, new_id |-> new_id,
                                        x |-> new_x, y |-> new_y,
                                        in_x |-> src.x, in_y |-> src.y])],
                  id |-> new_id]

\* The body of the loop of line 228 for one RHS neighbour.
MainVisitNeighbor(s, Grhs, m, c, rhs_cur, input_cur, rhs_nbr) ==
    LET lhs_nbr == DictGet(c, rhs_nbr)
    IN  IF lhs_nbr = None
        THEN IF rhs_nbr \notin s.visited
             THEN LET r  == MainCreateRhsOnlyNode(s, Grhs, rhs_nbr, rhs_cur, input_cur)
                      s1 == r.s
                  IN  IF s1.err # "" THEN s1
                      ELSE [s1 EXCEPT !.visited = @ \cup {rhs_nbr},
                                      !.G = EnsureEdge(@, input_cur, r.id),
                                      !.queue = Append(@, <<rhs_nbr, r.id>>)]
             ELSE LET input_nbr == DictGet(s.memo, rhs_nbr)
                  IN  IF input_nbr = None THEN s
                      ELSE [s EXCEPT !.G = EnsureEdge(@, input_cur, input_nbr)]
        ELSE LET input_nbr == DictGet(m, lhs_nbr)
             IN  IF input_nbr = None THEN s
                 ELSE [s EXCEPT !.visited = @ \cup {rhs_nbr},
                                !.G = EnsureEdge(@, input_cur, input_nbr)]

RECURSIVE MainNeighbors(_, _, _, _, _, _, _, _)
MainNeighbors(s, Grhs, m, c, rhs_cur, input_cur, nbrs, i) ==
    IF i > Len(nbrs) \/ s.err # "" THEN s
    ELSE MainNeighbors(MainVisitNeighbor(s, Grhs, m, c, rhs_cur, input_cur, nbrs[i]),
                       Grhs, m, c, rhs_cur, input_cur, nbrs, i + 1)

\* The loop of line 219, until the queue is empty.
RECURSIVE MainBfs(_, _, _, _)
MainBfs(s, Grhs, m, c) ==
    IF s.queue = <<>> \/ s.err # "" THEN s
    ELSE LET rhs_cur   == s.queue[1][1]
             input_cur == s.queue[1][2]
         IN  MainBfs(MainNeighbors([s EXCEPT !.queue = Tail(@)], Grhs, m, c,
                                   rhs_cur, input_cur, Grhs.adj[rhs_cur], 1),
                     Grhs, m, c)

\* The loop of line 207 over the RHS counterparts of a preserved LHS node.
RECURSIVE MainStarts(_, _, _, _, _, _, _)
MainStarts(s, Grhs, m, c, rhs_list, input_id, i) ==
    IF i > Len(rhs_list) \/ s.err # "" THEN s
    ELSE LET rhs_start == rhs_list[i]
         IN  MainStarts(IF ~HasNode(Grhs, rhs_start) THEN s
                        ELSE MainBfs([s EXCEPT !.visited = @ \cup {rhs_start},
                                               !.queue = <<<<rhs_start, input_id>>>>],
                                     Grhs, m, c),
                        Grhs, m, c, rhs_list, input_id, i + 1)

\* Lines 275-288: the RHS nodes whose LHS node is matched to a node of G.
RECURSIVE AnchorsFrom(_, _, _, _, _)
AnchorsFrom(G, Grhs, m, c, i) ==
    IF i > Len(Grhs.nodes) THEN <<>>
    ELSE LET r_node == Grhs.nodes[i]
             i_node == DictGet(m, DictGet(c, r_node))
             rest   == AnchorsFrom(G, Grhs, m, c, i + 1)
         IN  IF r_node \in DictKeys(c) /\ DictGet(c, r_node) \in DictKeys(m) /\ HasNode(G, i_node)
             THEN <<[rhs_id |-> r_node, input_id |-> i_node, pos |-> GetPos(Grhs, r_node)]>> \o rest
             ELSE rest

\* (rx - anc.x)**2 + (ry - anc.y)**2, line 301.
DistSq(p, q) == (p.x[1] - q.x[1]) * (p.x[1] - q.x[1]) + (p.y[1] - q.y[1]) * (p.y[1] - q.y[1])

\* Lines 296-304: the position in ancs of the first anchor at minimum
\* distance from p, 0 when there is no anchor.
RECURSIVE BestAnchorFrom(_, _, _, _)
BestAnchorFrom(ancs, p, i, best) ==
    IF i > Len(ancs) THEN best
    ELSE BestAnchorFrom(ancs, p, i + 1,
                        IF best = 0 \/ DistSq(p, ancs[i].pos) < DistSq(p, ancs[best].pos)
                        THEN i ELSE best)
BestAnchor(ancs, p) == BestAnchorFrom(ancs, p, 1, 0)

MaxMainLhs == 2

\* The requests main.calculate is explored on: as for logic.calculate, with a
\* match that may leave LHS nodes out and names Input nodes only.
InitMain ==
    /\ \E ni \in 0..MaxInput, nl \in 0..MaxMainLhs, nr \in 0..MaxRhs :
       \E ins \in InputNodeLists(ni) :
       \E Ei \in SUBSET IndexPairs(ni), El \in SUBSET IndexPairs(nl), Er \in SUBSET IndexPairs(nr) :
       \E m \in [1..nl -> MatchValues(ins) \ {DanglingId}], c \in [1..nr -> CorrValues(nl)] :
           req = Request(ins, Ei, nl, El, nr, Er, m, c)
    /\ pc = "start"
    /\ G_in = EmptyGraph /\ G_lhs = EmptyGraph /\ G_rhs = EmptyGraph
    /\ lhs_to_input = <<>> /\ rhs_to_lhs = <<>> /\ lhs_to_rhs = <<>>
    /\ next_new_id = 0 /\ rhs_new_to_input = <<>>
    /\ li = 0 /\ ri = 0 /\ queue = <<>> /\ visited_rhs = {} /\ ei = 0
    /\ created = <<>> /\ detail = "" /\ result = NoResult
    /\ anchors = <<>> /\ oi = 0 /\ placed = <<>> /\ expanded = <<>> /\ step = 0

\* Where the loop of main.py line 193 stands once its position is i.
MainLhsLoopPc(i) == IF i > Len(G_lhs.nodes) THEN "m_anchors" ELSE "m_lhs"

\* main.calculate, lines 101-126.
MainParse ==
    /\ pc = "start"
    /\ G_in' = ToNetworkx(req.graph_input)
    /\ G_lhs' = ToNetworkx(req.graph_lhs)
    /\ G_rhs' = ToNetworkx(req.graph_rhs)
    /\ lhs_to_input' = NormIds(req.mapping_lhs_to_input)
    /\ rhs_to_lhs' = NormIds(req.mapping_rhs_to_lhs)
    /\ lhs_to_rhs' = ReverseMap(rhs_to_lhs')
    /\ next_new_id' = NextNewId(G_in')
    /\ rhs_new_to_input' = <<>> /\ visited_rhs' = {}
    /\ li' = 1 /\ pc' = IF Len(G_lhs'.nodes) = 0 THEN "m_anchors" ELSE "m_lhs"
    /\ step' = step + 1
    /\ UNCHANGED <<req, expanded, ri, queue, ei, created, detail, result, anchors, oi, placed>>

\* One iteration of the loop of main.py line 193, expansions included.
MainLhsNode ==
    /\ pc = "m_lhs"
    /\ LET lhs_id   == G_lhs.nodes[li]
           input_id == DictGet(lhs_to_input, lhs_id)
           rhs_list == DictGetOr(lhs_to_rhs, lhs_id, <<>>)
           s0 == [G |-> G_in, next |-> next_new_id, memo |-> rhs_new_to_input,
                  visited |-> visited_rhs, queue |-> <<>>, created |-> created, err |-> ""]
           s1 == IF input_id = None THEN s0
                 ELSE IF rhs_list = <<>>
                 THEN [s0 EXCEPT !.G = IF HasNode(@, input_id) THEN RemoveNode(@, input_id) ELSE @]
                 ELSE MainStarts(s0, G_rhs, lhs_to_input, rhs_to_lhs, rhs_list, input_id, 1)
       IN  /\ G_in' = s1.G /\ next_new_id' = s1.next /\ rhs_new_to_input' = s1.memo
           /\ visited_rhs' = s1.visited /\ created' = s1.created /\ detail' = s1.err
           /\ li' = li + 1
           /\ pc' = IF s1.err # "" THEN "error" ELSE MainLhsLoopPc(li + 1)
    /\ step' = step + 1
    /\ UNCHANGED <<req, expanded, G_lhs, G_rhs, lhs_to_input, rhs_to_lhs, lhs_to_rhs, ri, queue, ei,
                   result, anchors, oi, placed>>

\* main.calculate, lines 275-288.
MainAnchors ==
    /\ pc = "m_anchors"
    /\ anchors' = AnchorsFrom(G_in, G_rhs, lhs_to_input, rhs_to_lhs, 1)
    /\ oi' = 1
    /\ IF \E i \in DOMAIN anchors' : PosFails(anchors'[i].pos)
       THEN pc' = "error" /\ detail' = "TypeError"
       ELSE pc' = "m_orphans" /\ UNCHANGED detail
    /\ step' = step + 1
    /\ UNCHANGED <<req, expanded, G_in, G_lhs, G_rhs, lhs_to_input, rhs_to_lhs, lhs_to_rhs,
                   next_new_id, rhs_new_to_input, li, ri, queue, visited_rhs, ei,
                   created, result, placed>>

\* One iteration of the loop of main.py line 290.
MainOrphanStep ==
    /\ pc = "m_orphans" /\ oi <= Len(G_rhs.nodes)
    /\ LET rhs_node == G_rhs.nodes[oi]
           r        == GetPos(G_rhs, rhs_node)
           b        == BestAnchor(anchors, r)
           anc      == IF b = 0 THEN [x |-> Num(0), y |-> Num(0)]
                       ELSE GetPos(G_in, anchors[b].input_id)
           new_id   == I(next_new_id)
       IN  IF rhs_node \in visited_rhs
           THEN /\ oi' = oi + 1
                /\ UNCHANGED <<G_in, next_new_id, rhs_new_to_input, visited_rhs, placed, pc, detail>>
           ELSE IF PosFails(r) \/ PosFails(anc)
           THEN /\ pc' = "error" /\ detail' = "TypeError"
                /\ UNCHANGED <<G_in, next_new_id, rhs_new_to_input, visited_rhs, placed, oi>>
           ELSE LET final_x == IF b = 0 THEN r.x ELSE Num(anc.x[1] + (r.x[1] - anchors[b].pos.x[1]))
                    final_y == IF b = 0 THEN r.y ELSE Num(anc.y[1] + (r.y[1] - anchors[b].pos.y[1]))
                IN  /\ G_in' = AddNode(G_in, new_id, XY(final_x, final_y))
                    /\ next_new_id' = next_new_id + 1
                    /\ visited_rhs' = visited_rhs \cup {rhs_node}
                    /\ rhs_new_to_input' = DictPut(rhs_new_to_input, rhs_node, new_id)
                    /\ placed' = Append(placed,
                           [rhs_id |-> rhs_node, new_id |-> new_id, x |-> final_x, y |-> final_y,
                            anchor |-> b, in_x |-> anc.x, in_y |-> anc.y,
                            fresh |-> ~HasNode(G_in, new_id)])
                    /\ oi' = oi + 1
                    /\ UNCHANGED <<pc, detail>>
    /\ step' = step + 1
    /\ UNCHANGED <<req, expanded, G_lhs, G_rhs, lhs_to_input, rhs_to_lhs, lhs_to_rhs, li, ri, queue, ei,
                   created, result, anchors>>

\* main.calculate, lines 333-348: the graph returned.
MainSerialize ==
    /\ pc = "m_orphans" /\ oi > Len(G_rhs.nodes)
    /\ result' = NodeLinkData(G_in)
    /\ pc' = "done"
    /\ step' = step + 1
    /\ UNCHANGED <<req, expanded, G_in, G_lhs, G_rhs, lhs_to_input, rhs_to_lhs, lhs_to_rhs,
                   next_new_id, rhs_new_to_input, li, ri, queue, visited_rhs, ei,
                   created, detail, anchors, oi, placed>>

NextMain == MainParse \/ MainLhsNode \/ MainAnchors \/ MainOrphanStep \/ MainSerialize

SpecMain == InitMain /\ [][NextMain]_vars

\* The RHS nodes an expansion of main.calculate starts from: those that
\* correspond to a matched node of the LHS graph.
PreservedAnchors ==
    {r \in RhsNodes : Corr(r) \in LhsNodes /\ Match(Corr(r)) # None}
\* The RHS nodes reachable in the RHS graph from the set R.
RECURSIVE ReachableFrom(_)
ReachableFrom(R) ==
    LET R1 == R \cup {n \in RhsNodes : \E r \in R : HasEdge(G_rhs, r, n)}
    IN  IF R1 = R THEN R ELSE ReachableFrom(R1)
\* The RHS nodes without correspondence that no preserved anchor reaches.
UnreachableOrphans ==
    {r \in RhsNodes : Corr(r) = None} \ ReachableFrom(PreservedAnchors)
\* The nodes of the working graph when the orphan pass began.
NodesBeforeOrphans ==
    DOMAIN G_in.attr \ {placed[i].new_id : i \in {j \in DOMAIN placed : placed[j].fresh}}
\* The RHS nodes with a corr-then-match anchor in the working graph.
AnchorNodes ==
    {r \in RhsNodes : /\ r \in DictKeys(rhs_to_lhs) /\ Corr(r) \in DictKeys(lhs_to_input)
                      /\ Match(Corr(r)) \in NodesBeforeOrphans}
\* The anchors at minimum Euclidean distance from RHS node r.
NearestAnchors(r) ==
    {a \in AnchorNodes : \A a2 \in AnchorNodes :
        DistSq(GetPos(G_rhs, r), GetPos(G_rhs, a)) <= DistSq(GetPos(G_rhs, r), GetPos(G_rhs, a2))}
\* The logged placement e puts RHS node r where C13 says.
PlacedAsClaimed(e, r) ==
    IF AnchorNodes = {}
    THEN e.x = Coord(G_rhs, r, "x") /\ e.y = Coord(G_rhs, r, "y")
    ELSE /\ e.anchor # 0
         /\ anchors[e.anchor].rhs_id \in NearestAnchors(r)
         /\ e.x = Num(e.in_x[1] + (Coord(G_rhs, r, "x")[1] - Coord(G_rhs, anchors[e.anchor].rhs_id, "x")[1]))
         /\ e.y = Num(e.in_y[1] + (Coord(G_rhs, r, "y")[1] - Coord(G_rhs, anchors[e.anchor].rhs_id, "y")[1]))

\* C13 (as claimed): when main.calculate returns, every RHS node without
\* correspondence that no preserved anchor reaches has been added as a new
\* node of the Input graph, at its RHS coordinates when there is no anchor
\* and else relative to an anchor nearest to it in the RHS graph.
C13_OrphanPlacement ==
    Returned =>
        \A r \in UnreachableOrphans :
            \E i \in DOMAIN placed :
                /\ placed[i].rhs_id = r /\ placed[i].fresh
                /\ placed[i].new_id \in ResultIds
                /\ PlacedAsClaimed(placed[i], r)

(***************************************************************************)
(* Properties of the graph logic.calculate returns.                        *)
(***************************************************************************)
\* An Input node that had an edge in the request and is not in the returned graph.
DeletedWithEdges ==
    {n \in DOMAIN InputGraph.attr : n \notin ResultIds /\ InputGraph.adj[n] # <<>>}

\* C15: both endpoints of every link of the returned graph are ids of nodes
\* in the returned node list.
C15_NoDanglingEdges ==
    Returned =>
        \A i \in DOMAIN result.links :
            result.links[i][1] \in ResultIds /\ result.links[i][2] \in ResultIds

\* Witness of C15: a graph with links is returned after a node with Input edges
\* was deleted and the frontier expansion created a node.
C15_Witness ==
    /\ Returned /\ result.links # <<>>
    /\ DeletedWithEdges # {}
    /\ created # <<>>

\* The edge-deletion pass (the loop of line 237) is running or has just ended.
InEdgePass == pc = "edges"
\* The LHS edge the loop of line 237 handles at position i.
LhsEdge(i) == Edges(G_lhs)[i]
\* A matched endpoint of that LHS edge is not a node of the working graph.
EndpointGone(i) ==
    \E k \in 1..2 : Match(LhsEdge(i)[k]) # None /\ ~HasNode(G_in, Match(LhsEdge(i)[k]))

\* C18: the edge-deletion pass starts only once the loop over the LHS nodes
\* has handled every LHS node and its expansions; from then on no step adds
\* or removes a node or adds an edge, none goes back to the node passes, and
\* handling an LHS edge with a deleted matched endpoint changes nothing and
\* raises nothing.
C18_PassOrdering ==
    /\ [](InEdgePass => (li > Len(G_lhs.nodes) /\ queue = <<>> /\ detail = ""))
    /\ [][InEdgePass =>
             /\ pc' \in {"edges", "done"}
             /\ G_in'.nodes = G_in.nodes
             /\ EdgeSet(G_in') \subseteq EdgeSet(G_in)
             /\ detail' = detail
             /\ (ei <= Len(Edges(G_lhs)) /\ EndpointGone(ei)) => (G_in' = G_in /\ pc' = "edges")]_vars

\* Witness of C18: the edge-deletion pass has handled an LHS edge with a
\* deleted matched endpoint, in a working graph that has lost Input edges.
C18_Witness ==
    /\ InEdgePass /\ ei > 1
    /\ EndpointGone(ei - 1)
    /\ EdgeSet(G_in) # EdgeSet(InputGraph)

\* An RHS node the claim of C20 covers: RHS-only, or corresponding to a
\* matched LHS node.
Realizable(r) == Corr(r) = None \/ (Corr(r) \in LhsNodes /\ Match(Corr(r)) # None)

\* C20 (as claimed): for every RHS edge whose endpoints are each RHS-only or
\* correspond to a matched LHS node, the returned graph has an edge between
\* a node standing for one endpoint and a node standing for the other.
C20_RhsEdgesRealized ==
    Returned =>
        \A e \in EdgeSet(G_rhs) :
            (\A r \in e : Realizable(r)) =>
                \E ru \in e, rv \in e :
                    /\ e = {ru, rv}
                    /\ \E a \in Representatives(ru), b \in Representatives(rv) :
                           {a, b} \in ResultEdges

(***************************************************************************)
(* logic.calculate as a function of the request: the loops of lines        *)
(* 159-269 run to their end over the closures' state, for comparing the    *)
(* rewrites of two requests.                                               *)
(***************************************************************************)
\* The loop of line 184, run until the queue is empty or an exception is raised.
RECURSIVE Bfs(_, _, _, _, _)
Bfs(s, Grhs, m, c, visited) ==
    IF s.queue = <<>> \/ s.err # "" THEN [s |-> s, visited |-> visited]
    ELSE LET rhs_cur   == s.queue[1][1]
             input_cur == s.queue[1][2]
             s0        == [s EXCEPT !.queue = Tail(@)]
         IN  IF rhs_cur \in visited THEN Bfs(s0, Grhs, m, c, visited)
             ELSE Bfs(ExpandFrom(s0, Grhs, m, c, visited \cup {rhs_cur}, rhs_cur,
                                 input_cur, Grhs.adj[rhs_cur], 1),
                      Grhs, m, c, visited \cup {rhs_cur})

\* The loop of line 174 from position i of rhs_list.
RECURSIVE RhsStarts(_, _, _, _, _, _, _, _)
RhsStarts(s, Grhs, m, c, l2r, rhs_list, input_id, i) ==
    IF i > Len(rhs_list) \/ s.err # "" THEN s
    ELSE IF ~HasNode(Grhs, rhs_list[i])
    THEN RhsStarts(s, Grhs, m, c, l2r, rhs_list, input_id, i + 1)
    ELSE LET b  == Bfs([s EXCEPT !.queue = <<<<rhs_list[i], input_id>>>>], Grhs, m, c, {})
             s1 == IF b.s.err # "" THEN b.s
                   ELSE OrphansFrom(b.s, Grhs, b.visited, l2r, 1)
         IN  RhsStarts(s1, Grhs, m, c, l2r, rhs_list, input_id, i + 1)

\* The loop of line 159 from position i of list(G_lhs.nodes).
RECURSIVE LhsLoop(_, _, _, _, _, _, _)
LhsLoop(s, Glhs, Grhs, m, c, l2r, i) ==
    IF i > Len(Glhs.nodes) \/ s.err # "" THEN s
    ELSE LET lhs_id   == Glhs.nodes[i]
             input_id == DictGet(m, lhs_id)
             rhs_list == DictGetOr(l2r, lhs_id, <<>>)
             s1 == IF input_id = None THEN s
                   ELSE IF NoCounterpart(rhs_list)
                   THEN [s EXCEPT !.G = IF HasNode(@, input_id)
                                        THEN RemoveNode(@, input_id) ELSE @]
                   ELSE RhsStarts(s, Grhs, m, c, l2r, rhs_list, input_id, 1)
         IN  LhsLoop(s1, Glhs, Grhs, m, c, l2r, i + 1)

\* The loop of line 237 from position i of G_lhs.edges().
RECURSIVE EdgeLoop(_, _, _, _, _, _)
EdgeLoop(G, es, Grhs, m, l2r, i) ==
    IF i > Len(es) THEN G
    ELSE EdgeLoop(RemoveVanishedEdge(G, Grhs, m, l2r, es[i][1], es[i][2]),
                  es, Grhs, m, l2r, i + 1)

\* calculate(r): the exception raised ("" when none) and the graph returned.
Calculate(r) ==
    LET Gin  == ToNetworkx(r.graph_input)
        Glhs == ToNetworkx(r.graph_lhs)
        Grhs == ToNetworkx(r.graph_rhs)
        m    == NormIds(r.mapping_lhs_to_input)
        c    == NormIds(r.mapping_rhs_to_lhs)
        l2r  == ReverseMap(c)
        chk  == CheckMorphism(Gin, Glhs, m)
        s0   == [G |-> Gin, next |-> NextNewId(Gin), memo |-> <<>>,
                 queue |-> <<>>, created |-> <<>>, err |-> ""]
        s1   == LhsLoop(s0, Glhs, Grhs, m, c, l2r, 1)
    IN  IF chk # "ok" THEN [detail |-> chk, graph |-> NoResult]
        ELSE IF s1.err # "" THEN [detail |-> s1.err, graph |-> NoResult]
        ELSE [detail |-> "",
              graph  |-> NodeLinkData(EdgeLoop(s1.G, Edges(Glhs), Grhs, m, l2r, 1))]

\* Two returned graphs are equal: same node ids, same coordinates, same edge set.
SameGraph(a, b) ==
    /\ SeqRange(a.nodes) = SeqRange(b.nodes)
    /\ {{a.links[i][1], a.links[i][2]} : i \in DOMAIN a.links}
         = {{b.links[i][1], b.links[i][2]} : i \in DOMAIN b.links}

\* The orders in which n LHS nodes can be listed.
Orders(n) == {p \in [1..n -> 1..n] : \A i \in 1..n, j \in 1..n : p[i] = p[j] => i = j}
\* The request r with its LHS nodes listed in order p.
WithLhsOrder(r, p) ==
    [r EXCEPT !.graph_lhs.nodes = [i \in DOMAIN r.graph_lhs.nodes |-> r.graph_lhs.nodes[p[i]]]]

\* C14 (as claimed): when calculate returns, it returns an equal graph for
\* the request with its LHS nodes listed in any other order.
C14_OrderIndependence ==
    Returned =>
        \A p \in Orders(Len(req.graph_lhs.nodes)) :
            LET o == Calculate(WithLhsOrder(req, p))
            IN  o.detail = "" /\ SameGraph(o.graph, result)

\* A node-link graph with every id written canonically: the integer for a
\* numeric string (the conversion of _to_int_helper, lines 23-32).
CanonicalGraph(g) ==
    [nodes |-> [i \in DOMAIN g.nodes |-> [g.nodes[i] EXCEPT !.id = ToIntHelper(@)]],
     links |-> [i \in DOMAIN g.links |->
                   <<ToIntHelper(g.links[i][1]), ToIntHelper(g.links[i][2])>>]]
CanonicalMapping(d) ==
    [i \in DOMAIN d |-> <<ToIntHelper(d[i][1]), ToIntHelper(d[i][2])>>]
\* The request that writes every numeric id as an integer everywhere.
CanonicalRequest(r) ==
    [graph_input |-> CanonicalGraph(r.graph_input),
     graph_lhs   |-> CanonicalGraph(r.graph_lhs),
     graph_rhs   |-> CanonicalGraph(r.graph_rhs),
     mapping_lhs_to_input |-> CanonicalMapping(r.mapping_lhs_to_input),
     mapping_rhs_to_lhs   |-> CanonicalMapping(r.mapping_rhs_to_lhs)]

\* calculate has ended: it returned, rejected the request or raised.
Ended == pc \in {"done", "rejected", "error"}

\* C16 (as claimed): calculate ends on a request as it ends on the request
\* that writes every numeric id as an integer: the same rejection or none,
\* and the same returned graph up to the writing of the ids.
C16_UniformNormalization ==
    Ended =>
        LET o == Calculate(CanonicalRequest(req))
        IN  /\ o.detail = detail
            /\ SameGraph(o.graph, CanonicalGraph(result))

\* The Input nodes of the request that are the image under match of no LHS node.
Unmatched == {n \in DOMAIN InputGraph.attr : \A l \in LhsNodes : Match(l) # n}

\* C21 (as claimed): every Input node that no LHS node is matched to is in
\* the returned graph with its x and y as in the request, and every Input
\* edge between two such nodes is in the returned graph.
C21_Locality ==
    Returned =>
        /\ \A n \in Unmatched :
               \E i \in DOMAIN result.nodes :
                   /\ result.nodes[i].id = n
                   /\ result.nodes[i].x = AttrGetOr(InputGraph.attr[n], "x", NoneVal)
                   /\ result.nodes[i].y = AttrGetOr(InputGraph.attr[n], "y", NoneVal)
        /\ \A u \in Unmatched, v \in Unmatched :
               InputEdge(u, v) => {u, v} \in ResultEdges

(***************************************************************************)
(* Termination.  calculate is sequential code: as long as it has not       *)
(* returned or raised, the interpreter takes its next step.  TakeStep is   *)
(* that step as the step counter shows it; it is enabled exactly when      *)
(* calculate has not ended, where Next has an enabled action (CanStep).    *)
(***************************************************************************)
\* calculate has returned, rejected the request or raised.
Stopped == pc \in {"done", "rejected", "error"}
TakeStep == ~Stopped /\ step' = step + 1

FairSpec == Init /\ [][Next]_vars /\ WF_step(TakeStep)

\* The guards of the actions of Next: some action is enabled.
CanStep == pc \in {"start", "check", "lhs", "rhs", "bfs", "edges"}

\* The breadth-first loop of line 184 is running.
InBfs == pc = "bfs"
\* Within the current expansion no RHS node had its neighbours iterated twice.
ExpandedOnce ==
    \A i \in DOMAIN expanded, j \in DOMAIN expanded : expanded[i] = expanded[j] => i = j

\* C22 (as claimed): the breadth-first loop always comes to an empty queue,
\* within one expansion each RHS node has its neighbours expanded at most
\* once, and calculate always reaches the serialization or a rejection.
C22_Termination ==
    /\ InBfs ~> (InBfs /\ queue = <<>>)
    /\ []ExpandedOnce
    /\ <>(pc \in {"done", "rejected"})

====
